---- MODULE Spec2Model ----
(***************************************************************************)
(* The glove logger (src/firmware/glove_logger.py): a reader thread that   *)
(* segments the device's line stream into trials and appends them to a CSV *)
(* store, and the main thread that sends operator commands to the device.  *)
(*                                                                         *)
(* Text is modelled byte by byte: a line is a sequence of byte values      *)
(* (ASCII codes, plus 255 as a byte that is never valid UTF-8), so that    *)
(* decoding, stripping, prefix tests, comma counting and splitting are     *)
(* computed as the code computes them.                                     *)
(*                                                                         *)
(* The calibration capture (src/calibration_capture.py) is a second,       *)
(* single-threaded program with variables and a specification of its own.  *)
(***************************************************************************)
EXTENDS Integers, Sequences, FiniteSets, TLC

VARIABLES
    running,          \* the global flag `running`
    rpc,              \* position of the reader thread
    line,             \* bytes returned by the last ser.readline()
    parts,            \* the local `parts` of serial_reader
    trial_id_active,  \* <<>> for None, <<tid>> otherwise
    current_rows,     \* the local `current_rows`
    fi,               \* rows of current_rows already written by the running for loop
    store,            \* rows written to the CSV file, header first
    fopen,            \* the CSV file object is open
    acks,             \* the "[+] Saved trial ..." messages printed so far
    mpc,              \* position of the main thread
    written,          \* the bytes of the last ser.write, <<>> before the first
    devTid,           \* index in DeviceIds of the device's current trial, 0 before the first row
    devRows,          \* data rows the device has sent so far
    devTail,          \* those of them sent after the device left its first trial
    accepted          \* history: the data rows serial_reader has tokenized, in arrival order

\* The calibration tool (src/calibration_capture.py)
VARIABLES
    cpc,                \* position in main / run_full_calibration
    phase,              \* "rest" or "flex": the collection that runs or ran last
    serial_connection,  \* "none" (None), "open" or "closed"
    closes,             \* calls of serial_connection.close() so far
    heap,               \* the list objects created so far, by reference
    calibration_data,   \* self.calibration_data: a reference into heap
    rest_data,          \* run_full_calibration's rest_data: a reference, 0 if unset
    flex_data,          \* run_full_calibration's flex_data: a reference, 0 if unset
    is_collecting,      \* self.is_collecting
    sent,               \* the calls of send_command, in order, each with its outcome
    reads,              \* turns of the running collection loop
    rest_calibration,   \* calculate_calibration_values(rest_data), <<>> if unset
    flex_calibration,   \* calculate_calibration_values(flex_data), <<>> if unset
    result,             \* what run_full_calibration returned, <<>> if nothing
    saved,              \* what save_calibration wrote, <<>> if nothing
    error,              \* the exception on its way to main or caught there, "" if none
    restSamples,        \* history: the samples appended during the rest collection
    flexSamples         \* history: the samples appended during the flex collection

logvars == <<running, rpc, line, parts, trial_id_active, current_rows, fi, store,
             fopen, acks, mpc, written, devTid, devRows, devTail, accepted>>

calvars == <<cpc, phase, serial_connection, closes, heap, calibration_data, rest_data,
             flex_data, is_collecting, sent, reads, rest_calibration,
             flex_calibration, result, saved, error, restSamples, flexSamples>>

vars == <<logvars, calvars>>

segvars == <<parts, trial_id_active, current_rows, fi, store, acks, accepted>>

-----------------------------------------------------------------------------
(* Program constants *)

ROWS_PER_TRIAL == 75

FIELD_COMMAS == 12

Comma == 44

Hash == 35

\* "t_s,flex1,flex2,flex3,flex4,flex5,roll_deg,pitch_deg,ax_g,ay_g,az_g,label,trial_id"
HEADER ==
    << 116, 95, 115, 44, 102, 108, 101, 120, 49, 44, 102, 108, 101, 120, 50,
       44, 102, 108, 101, 120, 51, 44, 102, 108, 101, 120, 52, 44, 102, 108,
       101, 120, 53, 44, 114, 111, 108, 108, 95, 100, 101, 103, 44, 112, 105,
       116, 99, 104, 95, 100, 101, 103, 44, 97, 120, 95, 103, 44, 97, 121, 95,
       103, 44, 97, 122, 95, 103, 44, 108, 97, 98, 101, 108, 44, 116, 114, 105,
       97, 108, 95, 105, 100 >>

\* "t_s,"
HeaderPrefix == << 116, 95, 115, 44 >>

-----------------------------------------------------------------------------
(* Bounds of the model *)

\* data rows the device sends in one run
MaxRows == 77

\* data rows the device sends after it has left its first trial
MaxTail == 3

\* data rows the device sends in one run when it stays in its first trial
MaxLongRows == 151

\* The trial ids the device assigns, in the order it assigns them: "1", "2", "3".
DeviceIds == << <<49>>, <<50>>, <<51>> >>

-----------------------------------------------------------------------------
(* String operations, as Python computes them *)

\* bytes.decode("utf-8", errors="ignore") on ASCII bytes and bytes that are
\* never valid UTF-8: the invalid bytes are dropped, the rest is kept.
Decode(raw) == SelectSeq(raw, LAMBDA b : b < 128)

\* str.isspace for the ASCII range
IsSpace(c) == c \in {9, 10, 11, 12, 13, 28, 29, 30, 31, 32}

RECURSIVE LStrip(_)
LStrip(s) ==
    IF s # <<>> /\ IsSpace(Head(s)) THEN LStrip(Tail(s)) ELSE s

RECURSIVE RStrip(_)
RStrip(s) ==
    IF s # <<>> /\ IsSpace(s[Len(s)]) THEN RStrip(SubSeq(s, 1, Len(s) - 1)) ELSE s

\* str.strip()
Strip(s) == RStrip(LStrip(s))

\* str.startswith(p)
StartsWith(s, p) == Len(s) >= Len(p) /\ SubSeq(s, 1, Len(p)) = p

\* str.count(c) for a one-character c
Count(s, c) == Cardinality({i \in 1..Len(s) : s[i] = c})

\* str.split(c) for a one-character c: always at least one field
RECURSIVE Split(_, _)
Split(s, c) ==
    IF \A i \in 1..Len(s) : s[i] # c
    THEN << s >>
    ELSE LET k == CHOOSE i \in 1..Len(s) :
                      s[i] = c /\ \A j \in 1..(i - 1) : s[j] # c
         IN  << SubSeq(s, 1, k - 1) >> \o Split(SubSeq(s, k + 1, Len(s)), c)

\* the text of `line` after decode(...).strip()
Text(raw) == Strip(Decode(raw))

\* the header test of line 42 left out
IsStaleHeaderNever(l) == FALSE

\* line 42: the ESP32 re-sent its CSV header
IsStaleHeader(l) == StartsWith(l, HeaderPrefix)

\* line 49 without its test for the comment marker
IsDataCheckCommasOnly(l) == Count(l, Comma) = FIELD_COMMAS

\* line 49: the data row check
IsDataCheck(l) == Count(l, Comma) = FIELD_COMMAS /\ ~StartsWith(l, << Hash >>)

\* lines 40-49: the line reaches the segmenter
IsData(l) == l # <<>> /\ ~IsStaleHeader(l) /\ IsDataCheck(l)

-----------------------------------------------------------------------------
(* The device's output: what ser.readline() may return *)

RECURSIVE Digits(_)
Digits(n) == IF n < 10 THEN << 48 + n >> ELSE Digits(n \div 10) \o << 48 + (n % 10) >>

Commas(k) == [i \in 1..k |-> Comma]

\* A data row: t_s is the row's number, label is "A", the other readings are
\* empty fields, the last field is the trial id.
DataLine(n, tid) == Digits(n) \o Commas(11) \o << 65, Comma >> \o tid \o << 13, 10 >>

\* The same row with a byte that is not valid UTF-8 in front of it.
NoisyDataLine(n, tid) == << 255 >> \o DataLine(n, tid)

\* Lines that are not data rows: a read timeout (b""), a comment line that
\* has 12 commas, the device's header, a row that lost a field (11 commas).
OtherLines ==
    { <<>>,
      << Hash >> \o Commas(12) \o << 10 >>,
      HEADER \o << 13, 10 >>,
      << 48 >> \o Commas(11) \o << 49, 10 >> }

\* What the operator types at the prompt: "start"
OperatorCommands == { << 115, 116, 97, 114, 116 >> }

\* The trials the device may be in when it sends its next row: the current
\* one or the one after it.
NextTids == { k \in DOMAIN DeviceIds : k >= devTid /\ k >= 1 /\ k <= devTid + 1 }

-----------------------------------------------------------------------------
Init ==
    /\ running = TRUE
    /\ rpc = "top"
    /\ line = <<>>
    /\ parts = <<>>
    /\ trial_id_active = <<>>
    /\ current_rows = <<>>
    /\ fi = 0
    /\ store = << Split(HEADER, Comma) >>
    /\ fopen = TRUE
    /\ acks = <<>>
    /\ mpc = "prompt"
    /\ written = <<>>
    /\ devTid = 0
    /\ devRows = 0
    /\ devTail = 0
    /\ accepted = <<>>
    /\ cpc = "main"
    /\ phase = "rest"
    /\ serial_connection = "none"
    /\ closes = 0
    /\ heap = << <<>> >>
    /\ calibration_data = 1
    /\ rest_data = 0
    /\ flex_data = 0
    /\ is_collecting = FALSE
    /\ sent = <<>>
    /\ reads = 0
    /\ rest_calibration = <<>>
    /\ flex_calibration = <<>>
    /\ result = <<>>
    /\ saved = <<>>
    /\ error = ""
    /\ restSamples = <<>>
    /\ flexSamples = <<>>

-----------------------------------------------------------------------------
(* The reader thread: serial_reader *)

\* line 69 comparing with one row too many
AddRowOffByOne(rows, p) ==
    /\ current_rows' = Append(rows, p)
    /\ fi' = 0
    /\ rpc' = IF Len(Append(rows, p)) = ROWS_PER_TRIAL + 1 THEN "flushQuota" ELSE "top"

\* lines 65-73 up to the first writer.writerow: append the row, and start
\* the quota flush when the buffer holds ROWS_PER_TRIAL rows.
AddRow(rows, p) ==
    /\ current_rows' = Append(rows, p)
    /\ fi' = 0
    /\ rpc' = IF Len(Append(rows, p)) = ROWS_PER_TRIAL THEN "flushQuota" ELSE "top"

\* lines 51-66 without the test of line 57: every data row is appended
SegmentNoIdTest(l) ==
    LET p == Split(l, Comma)
        tid == p[Len(p)]
    IN  /\ parts' = p
        /\ accepted' = Append(accepted, p)
        /\ trial_id_active' = IF trial_id_active = <<>> THEN << tid >> ELSE trial_id_active
        /\ AddRow(current_rows, p)
        /\ UNCHANGED <<store, acks>>

\* lines 50-66 for a line that passed the data row check
Segment(l) ==
    LET p == Split(l, Comma)
        tid == p[Len(p)]
        active == IF trial_id_active = <<>> THEN << tid >> ELSE trial_id_active
    IN  /\ parts' = p
        /\ accepted' = Append(accepted, p)
        /\ IF << tid >> # active
           THEN /\ rpc' = "flushChange"
                /\ fi' = 0
                /\ UNCHANGED <<trial_id_active, current_rows>>
           ELSE /\ trial_id_active' = active
                /\ AddRow(current_rows, p)
        /\ UNCHANGED <<store, acks>>

\* the loop going on after the error report of lines 75-76 (no break)
ProcessNoBreak(raw) ==
    /\ rpc \in {"top", "failed"}
    /\ running
    /\ line' = raw
    /\ IF IsData(Text(raw))
       THEN Segment(Text(raw))
       ELSE /\ rpc' = "top"
            /\ UNCHANGED segvars
    /\ UNCHANGED <<running, fopen, mpc, written, calvars>>

\* lines 36-51: one turn of the loop, up to the first writer.writerow
Process(raw) ==
    /\ rpc = "top"
    /\ running
    /\ line' = raw
    /\ IF IsData(Text(raw))
       THEN Segment(Text(raw))
       ELSE /\ rpc' = "top"
            /\ UNCHANGED segvars
    /\ UNCHANGED <<running, fopen, mpc, written, calvars>>

\* the device sends a data row and the reader reads it
ReadDataLine ==
    /\ devRows < MaxRows
    /\ \E k \in NextTids, noisy \in BOOLEAN :
          /\ k > 1 => devTail < MaxTail
          /\ devTid' = k
          /\ devRows' = devRows + 1
          /\ devTail' = IF k > 1 THEN devTail + 1 ELSE devTail
          /\ Process(IF noisy THEN NoisyDataLine(devRows + 1, DeviceIds[k])
                              ELSE DataLine(devRows + 1, DeviceIds[k]))

\* the reader reads a line that is not a data row
ReadOtherLine ==
    /\ \E raw \in OtherLines : Process(raw)
    /\ UNCHANGED <<devTid, devRows, devTail>>

\* the for loop writing its first row again and again
WriteRowFirst ==
    /\ rpc \in {"flushChange", "flushQuota"}
    /\ fi < Len(current_rows)
    /\ fopen
    /\ store' = Append(store, current_rows[1])
    /\ fi' = fi + 1
    /\ UNCHANGED <<running, rpc, line, parts, trial_id_active, current_rows,
                   fopen, acks, mpc, written, devTid, devRows, devTail, accepted, calvars>>

\* lines 59-60 and 70-71: one writer.writerow(r) of the running for loop
WriteRow ==
    /\ rpc \in {"flushChange", "flushQuota"}
    /\ fi < Len(current_rows)
    /\ fopen
    /\ store' = Append(store, current_rows[fi + 1])
    /\ fi' = fi + 1
    /\ UNCHANGED <<running, rpc, line, parts, trial_id_active, current_rows,
                   fopen, acks, mpc, written, devTid, devRows, devTail, accepted, calvars>>

\* writer.writerow raises (the file was closed by main, or the write fails):
\* lines 75-77 report the error and leave the loop
WriteRowRaises ==
    /\ rpc \in {"flushChange", "flushQuota"}
    /\ fi < Len(current_rows)
    /\ rpc' = "failed"
    /\ UNCHANGED <<running, line, parts, trial_id_active, current_rows, fi, store,
                   fopen, acks, mpc, written, devTid, devRows, devTail, accepted, calvars>>

\* line 63 moved before the message of line 61: the flush carries the new id
ChangeFlushDoneNewId ==
    /\ rpc = "flushChange"
    /\ fi = Len(current_rows)
    /\ acks' = Append(acks, [tid |-> parts[Len(parts)], n |-> Len(current_rows)])
    /\ trial_id_active' = << parts[Len(parts)] >>
    /\ AddRow(<<>>, parts)
    /\ UNCHANGED <<running, line, parts, store, fopen, mpc, written, devTid, devRows,
                   devTail, accepted, calvars>>

\* lines 61-66 (and 69 for the new buffer): the id-change flush is written
ChangeFlushDone ==
    /\ rpc = "flushChange"
    /\ fi = Len(current_rows)
    /\ acks' = Append(acks, [tid |-> trial_id_active[1], n |-> Len(current_rows)])
    /\ trial_id_active' = << parts[Len(parts)] >>
    /\ AddRow(<<>>, parts)
    /\ UNCHANGED <<running, line, parts, store, fopen, mpc, written, devTid, devRows,
                   devTail, accepted, calvars>>

\* the quota flush also forgetting the active id
QuotaFlushDoneResetsId ==
    /\ rpc = "flushQuota"
    /\ fi = Len(current_rows)
    /\ acks' = Append(acks, [tid |-> trial_id_active[1], n |-> 75])
    /\ current_rows' = <<>>
    /\ trial_id_active' = <<>>
    /\ fi' = 0
    /\ rpc' = "top"
    /\ UNCHANGED <<running, line, parts, store, fopen, mpc, written,
                   devTid, devRows, devTail, accepted, calvars>>

\* the quota flush without line 73: the buffer is kept
QuotaFlushDoneKeepsRows ==
    /\ rpc = "flushQuota"
    /\ fi = Len(current_rows)
    /\ acks' = Append(acks, [tid |-> trial_id_active[1], n |-> 75])
    /\ fi' = 0
    /\ rpc' = "top"
    /\ UNCHANGED <<running, line, parts, trial_id_active, current_rows, store, fopen,
                   mpc, written, devTid, devRows, devTail, accepted, calvars>>

\* lines 72-73: the quota flush is written
QuotaFlushDone ==
    /\ rpc = "flushQuota"
    /\ fi = Len(current_rows)
    /\ acks' = Append(acks, [tid |-> trial_id_active[1], n |-> 75])
    /\ current_rows' = <<>>
    /\ fi' = 0
    /\ rpc' = "top"
    /\ UNCHANGED <<running, line, parts, trial_id_active, store, fopen, mpc, written,
                   devTid, devRows, devTail, accepted, calvars>>

\* the loop ending with a flush of what is buffered
ReaderExitFlushes ==
    /\ rpc = "top"
    /\ ~running
    /\ rpc' = "done"
    /\ store' = store \o current_rows
    /\ acks' = Append(acks, [tid |-> trial_id_active, n |-> Len(current_rows)])
    /\ current_rows' = <<>>
    /\ UNCHANGED <<running, line, parts, trial_id_active, fi,
                   fopen, mpc, written, devTid, devRows, devTail, accepted, calvars>>

\* line 36: `running` is false, the loop ends
ReaderExit ==
    /\ rpc = "top"
    /\ ~running
    /\ rpc' = "done"
    /\ UNCHANGED <<running, line, parts, trial_id_active, current_rows, fi, store,
                   fopen, acks, mpc, written, devTid, devRows, devTail, accepted, calvars>>

\* line 38 raises (the device was unplugged): lines 75-77
ReadRaises ==
    /\ rpc = "top"
    /\ running
    /\ rpc' = "failed"
    /\ UNCHANGED <<running, line, parts, trial_id_active, current_rows, fi, store,
                   fopen, acks, mpc, written, devTid, devRows, devTail, accepted, calvars>>

\* line 104: the reader is a daemon thread, it dies with the process
ReaderKilled ==
    /\ mpc \in {"exited", "crashed"}
    /\ rpc \in {"top", "flushChange", "flushQuota"}
    /\ rpc' = "killed"
    /\ UNCHANGED <<running, line, parts, trial_id_active, current_rows, fi, store,
                   fopen, acks, mpc, written, devTid, devRows, devTail, accepted, calvars>>

-----------------------------------------------------------------------------
(* The main thread: main, from line 110 on *)

\* the command handed to the CSV writer as well as to the port
SendCommandLogged ==
    /\ mpc = "prompt"
    /\ \E cmd \in OperatorCommands :
          /\ written' = cmd \o << 10 >>
          /\ store' = Append(store, << cmd >>)
    /\ UNCHANGED <<running, rpc, line, parts, trial_id_active, current_rows, fi,
                   fopen, acks, mpc, devTid, devRows, devTail, accepted, calvars>>

\* lines 113-114: the operator enters a command and it is written
SendCommand ==
    /\ mpc = "prompt"
    /\ \E cmd \in OperatorCommands : written' = cmd \o << 10 >>
    /\ UNCHANGED <<running, rpc, line, parts, trial_id_active, current_rows, fi,
                   store, fopen, acks, mpc, devTid, devRows, devTail, accepted, calvars>>

\* line 114 raises: only KeyboardInterrupt is caught (line 116), so the
\* exception leaves the with block of line 98, which closes the file, and
\* ends main
CommandRaises ==
    /\ mpc = "prompt"
    /\ mpc' = "crashed"
    /\ fopen' = FALSE
    /\ UNCHANGED <<running, rpc, line, parts, trial_id_active, current_rows, fi,
                   store, acks, written, devTid, devRows, devTail, accepted, calvars>>

\* lines 116-119: the operator interrupts
Interrupt ==
    /\ mpc = "prompt"
    /\ running' = FALSE
    /\ mpc' = "stopping"
    /\ UNCHANGED <<rpc, line, parts, trial_id_active, current_rows, fi, store,
                   fopen, acks, written, devTid, devRows, devTail, accepted, calvars>>

\* the sleep of line 119 is over: the with block of line 98 closes the file
MainExit ==
    /\ mpc = "stopping"
    /\ mpc' = "exited"
    /\ fopen' = FALSE
    /\ UNCHANGED <<running, rpc, line, parts, trial_id_active, current_rows, fi,
                   store, acks, written, devTid, devRows, devTail, accepted, calvars>>

-----------------------------------------------------------------------------
Next ==
    \/ ReadDataLine
    \/ ReadOtherLine
    \/ WriteRow
    \/ WriteRowRaises
    \/ ChangeFlushDone
    \/ QuotaFlushDone
    \/ ReaderExit
    \/ ReadRaises
    \/ ReaderKilled
    \/ SendCommand
    \/ CommandRaises
    \/ Interrupt
    \/ MainExit

Spec == Init /\ [][Next]_vars

\* The reader alone on a long stream: the device stays in its first trial.
ReadSameTrialLine ==
    /\ devRows < MaxLongRows
    /\ devTid' = 1
    /\ devRows' = devRows + 1
    /\ UNCHANGED devTail
    /\ Process(DataLine(devRows + 1, DeviceIds[1]))

LongNext ==
    \/ ReadSameTrialLine
    \/ ReadOtherLine
    \/ WriteRow
    \/ QuotaFlushDone

LongSpec == Init /\ [][LongNext]_vars

\* Both threads are scheduled: a reader that can take a step of its own
\* takes it, and the sleep of line 119 ends.  The operator (a command, an
\* interrupt) and the failures of the device and of the file are not bound
\* to happen.
FairSpec ==
    /\ Spec
    /\ WF_vars(WriteRow \/ ChangeFlushDone \/ QuotaFlushDone \/ ReaderExit)
    /\ WF_vars(MainExit)

-----------------------------------------------------------------------------
(* The calibration capture (src/calibration_capture.py)                    *)

\* turns of the collection loop within the 3 seconds of one phase
MaxReads == 3

\* bytes.decode("utf-8", errors="replace"): U+FFFD for a byte that is not
\* valid UTF-8
DecodeReplace(raw) == [i \in 1..Len(raw) |-> IF raw[i] < 128 THEN raw[i] ELSE 65533]

CalText(raw) == Strip(DecodeReplace(raw))

\* float(x) on the fields the lines below are made of: a string of decimal
\* digits is a number, the empty string and a string with a letter, '_' or
\* U+FFFD raise ValueError
IsFloat(f) == f # <<>> /\ \A i \in 1..Len(f) : f[i] \in 48..57

RECURSIVE Float(_)
Float(f) ==
    IF f = <<>> THEN 0
    ELSE 10 * Float(SubSeq(f, 1, Len(f) - 1)) + (f[Len(f)] - 48)

\* the list comprehension of line 122; ValueError if one field is no number
ParsesAsFloats(l) == \A i \in 1..Len(Split(l, Comma)) : IsFloat(Split(l, Comma)[i])

Values(l) == [i \in 1..Len(Split(l, Comma)) |-> Float(Split(l, Comma)[i])]

\* Python's values[a:b] for 0 <= a <= b
Slice(values, a, b) ==
    SubSeq(values, a + 1, IF b < Len(values) THEN b ELSE Len(values))

\* lines 113-128: does the line append a sample
IsSample(raw) ==
    /\ raw # <<>>
    /\ ~(StartsWith(CalText(raw), << Hash >>) \/ CalText(raw) = <<>>)
    /\ ParsesAsFloats(CalText(raw))
    /\ Len(Values(CalText(raw))) >= 5

\* line 124
FlexValues(raw) == Slice(Values(CalText(raw)), 1, 6)

\* what readline() returns during a collection: nothing (timeout), a
\* comment, "0,1,2,3,4,5", "9,3,1,4,1,5", a line of five numbers
\* "1,2,3,4,5", a line of four numbers, the CSV header's start, and a line
\* of six numbers with a byte that is not valid UTF-8 in front
CalLines ==
    { <<>>,
      << Hash, 32, 120, 13, 10 >>,
      << 48, Comma, 49, Comma, 50, Comma, 51, Comma, 52, Comma, 53, 13, 10 >>,
      << 57, Comma, 51, Comma, 49, Comma, 52, Comma, 49, Comma, 53, 13, 10 >>,
      << 49, Comma, 50, Comma, 51, Comma, 52, Comma, 53, 13, 10 >>,
      << 49, Comma, 50, Comma, 51, Comma, 52, 13, 10 >>,
      << 116, 95, 115, Comma, 102, 49, Comma, 102, 50, Comma, 102, 51, Comma, 102, 52,
         Comma, 102, 53, 13, 10 >>,
      << 255, 48, Comma, 49, Comma, 50, Comma, 51, Comma, 52, Comma, 53, 13, 10 >> }

\* numpy on the list of samples
Ragged(data) == \E i \in 1..Len(data) : Len(data[i]) # Len(data[1])

RECURSIVE SumCol(_, _)
SumCol(data, k) ==
    IF data = <<>> THEN 0 ELSE SumCol(SubSeq(data, 1, Len(data) - 1), k) + data[Len(data)][k]

RECURSIVE GCD(_, _)
GCD(a, b) == IF b = 0 THEN a ELSE GCD(b, a % b)

\* a quotient of naturals in lowest terms
Quotient(p, q) == << p \div GCD(p, q), q \div GCD(p, q) >>

Mean(data) == [k \in 1..Len(data[1]) |-> Quotient(SumCol(data, k), Len(data))]

Max(data) ==
    [k \in 1..Len(data[1]) |->
        CHOOSE m \in {data[i][k] : i \in 1..Len(data)} :
            \A i \in 1..Len(data) : data[i][k] <= m]

Min(data) ==
    [k \in 1..Len(data[1]) |->
        CHOOSE m \in {data[i][k] : i \in 1..Len(data)} :
            \A i \in 1..Len(data) : data[i][k] >= m]

\* lines 155-160, without the time stamp
CalibrationValues(data) ==
    [sensorBaselines |-> Mean(data),
     sensorMaximums  |-> Max(data),
     sensorMinimums  |-> Min(data)]

\* lines 34-53 and 194-195: the port is opened, or connect returns False and
\* run_full_calibration raises before its try
Connect ==
    /\ cpc = "main"
    /\ \/ /\ serial_connection' = "open"
          /\ cpc' = "prompt"
          /\ UNCHANGED error
       \/ /\ error' = "Failed to connect to glove"
          /\ cpc' = "mainFinally"
          /\ UNCHANGED serial_connection
    /\ UNCHANGED <<phase, closes, heap, calibration_data, rest_data, flex_data,
                   is_collecting, sent, reads, rest_calibration, flex_calibration,
                   result, saved, restSamples, flexSamples, logvars>>

\* lines 167 and 176: input() returns, or raises EOFError
Prompt ==
    /\ cpc = "prompt"
    /\ \/ /\ cpc' = "start"
          /\ UNCHANGED error
       \/ /\ error' = "EOFError"
          /\ cpc' = "finally"
    /\ UNCHANGED <<phase, serial_connection, closes, heap, calibration_data, rest_data,
                   flex_data, is_collecting, sent, reads, rest_calibration,
                   flex_calibration, result, saved, restSamples, flexSamples, logvars>>

\* lines 71-80: the command is written (ok), or the write fails, which is
\* reported and goes no further
send_command(command, ok) == Append(sent, [cmd |-> command, ok |-> ok])

\* start_data_collection emptying the list it has instead of taking a new one
StartDataCollectionInPlace ==
    /\ cpc = "start"
    /\ heap' = [heap EXCEPT ![calibration_data] = <<>>]
    /\ is_collecting' = TRUE
    /\ \E ok \in BOOLEAN : sent' = send_command("start", ok)
    /\ reads' = 0
    /\ cpc' = "loop"
    /\ UNCHANGED <<phase, serial_connection, closes, calibration_data, rest_data,
                   flex_data, rest_calibration, flex_calibration, result, saved, error,
                   restSamples, flexSamples, logvars>>

\* lines 82-87 and 107-108
StartDataCollection ==
    /\ cpc = "start"
    /\ heap' = Append(heap, <<>>)
    /\ calibration_data' = Len(heap) + 1
    /\ is_collecting' = TRUE
    /\ \E ok \in BOOLEAN : sent' = send_command("start", ok)
    /\ reads' = 0
    /\ cpc' = "loop"
    /\ UNCHANGED <<phase, serial_connection, closes, rest_data, flex_data,
                   rest_calibration, flex_calibration, result, saved, error,
                   restSamples, flexSamples, logvars>>

\* lines 110-128: one turn of the loop
ReadSample ==
    /\ cpc = "loop"
    /\ reads < MaxReads
    /\ reads' = reads + 1
    /\ \E raw \in CalLines :
          IF IsSample(raw)
          THEN /\ heap' = [heap EXCEPT ![calibration_data] = Append(@, FlexValues(raw))]
               /\ IF phase = "rest"
                  THEN /\ restSamples' = Append(restSamples, FlexValues(raw))
                       /\ UNCHANGED flexSamples
                  ELSE /\ flexSamples' = Append(flexSamples, FlexValues(raw))
                       /\ UNCHANGED restSamples
          ELSE UNCHANGED <<heap, restSamples, flexSamples>>
    /\ UNCHANGED <<cpc, phase, serial_connection, closes, calibration_data, rest_data,
                   flex_data, is_collecting, sent, rest_calibration, flex_calibration,
                   result, saved, error, logvars>>

\* a read error leaving collect_calibration_data at once
ReadlineRaisesSkipsStop ==
    /\ cpc = "loop"
    /\ cpc' = "check"
    /\ UNCHANGED <<phase, serial_connection, closes, heap, calibration_data, rest_data,
                   flex_data, is_collecting, sent, reads, rest_calibration,
                   flex_calibration, result, saved, error, restSamples, flexSamples,
                   logvars>>

\* lines 130-132: readline raises and the loop is left
ReadlineRaises ==
    /\ cpc = "loop"
    /\ cpc' = "stop"
    /\ UNCHANGED <<phase, serial_connection, closes, heap, calibration_data, rest_data,
                   flex_data, is_collecting, sent, reads, rest_calibration,
                   flex_calibration, result, saved, error, restSamples, flexSamples,
                   logvars>>

\* line 110: the duration has passed
TimeUp ==
    /\ cpc = "loop"
    /\ cpc' = "stop"
    /\ UNCHANGED <<phase, serial_connection, closes, heap, calibration_data, rest_data,
                   flex_data, is_collecting, sent, reads, rest_calibration,
                   flex_calibration, result, saved, error, restSamples, flexSamples,
                   logvars>>

\* lines 89-93 and 134
StopDataCollection ==
    /\ cpc = "stop"
    /\ is_collecting' = FALSE
    /\ \E ok \in BOOLEAN : sent' = send_command("stop", ok)
    /\ cpc' = "check"
    /\ UNCHANGED <<phase, serial_connection, closes, heap, calibration_data, rest_data,
                   flex_data, reads, rest_calibration, flex_calibration, result, saved,
                   error, restSamples, flexSamples, logvars>>

\* collect_calibration_data returning whatever it has collected
EmptyCheckNever ==
    /\ cpc = "check"
    /\ cpc' = "calc"
    /\ IF phase = "rest"
       THEN rest_data' = calibration_data /\ UNCHANGED flex_data
       ELSE flex_data' = calibration_data /\ UNCHANGED rest_data
    /\ UNCHANGED <<phase, serial_connection, closes, heap, calibration_data,
                   is_collecting, sent, reads, rest_calibration, flex_calibration,
                   result, saved, error, restSamples, flexSamples, logvars>>

\* lines 136-140, and the assignment of the returned list at line 199 or 203
EmptyCheck ==
    /\ cpc = "check"
    /\ IF heap[calibration_data] = <<>>
       THEN /\ error' = "No sensor data collected!"
            /\ cpc' = "finally"
            /\ UNCHANGED <<rest_data, flex_data>>
       ELSE /\ cpc' = "calc"
            /\ IF phase = "rest"
               THEN rest_data' = calibration_data /\ UNCHANGED flex_data
               ELSE flex_data' = calibration_data /\ UNCHANGED rest_data
            /\ UNCHANGED error
    /\ UNCHANGED <<phase, serial_connection, closes, heap, calibration_data,
                   is_collecting, sent, reads, rest_calibration, flex_calibration,
                   result, saved, restSamples, flexSamples, logvars>>

\* lines 142-160, called at line 200 or 204.  numpy raises on a list that is
\* empty (np.max: ValueError) or whose samples differ in length (np.array:
\* ValueError; before numpy 1.24 np.mean: TypeError).
CalculateCalibrationValues ==
    /\ cpc = "calc"
    /\ LET data == heap[IF phase = "rest" THEN rest_data ELSE flex_data]
       IN  IF data = <<>> \/ Ragged(data)
           THEN /\ \E e \in {"ValueError", "TypeError"} :
                      /\ data = <<>> => e = "ValueError"
                      /\ error' = e
                /\ cpc' = "finally"
                /\ UNCHANGED <<phase, rest_calibration, flex_calibration>>
           ELSE /\ IF phase = "rest"
                   THEN /\ rest_calibration' = << CalibrationValues(data) >>
                        /\ phase' = "flex"
                        /\ cpc' = "prompt"
                        /\ UNCHANGED flex_calibration
                   ELSE /\ flex_calibration' = << CalibrationValues(data) >>
                        /\ cpc' = "build"
                        /\ UNCHANGED <<phase, rest_calibration>>
                /\ UNCHANGED error
    /\ UNCHANGED <<serial_connection, closes, heap, calibration_data, rest_data,
                   flex_data, is_collecting, sent, reads, result, saved, restSamples,
                   flexSamples, logvars>>

\* lines 207-221, without the time stamp
BuildRecord ==
    /\ cpc = "build"
    /\ result' = << [username        |-> "username",
                     isCalibrated    |-> TRUE,
                     calibrationData |->
                        [sensorBaselines |-> rest_calibration[1].sensorBaselines,
                         sensorMaximums  |-> flex_calibration[1].sensorMaximums]] >>
    /\ cpc' = "finally"
    /\ UNCHANGED <<phase, serial_connection, closes, heap, calibration_data, rest_data,
                   flex_data, is_collecting, sent, reads, rest_calibration,
                   flex_calibration, saved, error, restSamples, flexSamples, logvars>>

\* disconnect without the is_open test of line 67
disconnectAgain ==
    IF serial_connection # "none"
    THEN serial_connection' = "closed" /\ closes' = closes + 1
    ELSE UNCHANGED <<serial_connection, closes>>

\* lines 65-69
disconnect ==
    IF serial_connection = "open"
    THEN serial_connection' = "closed" /\ closes' = closes + 1
    ELSE UNCHANGED <<serial_connection, closes>>

\* lines 223-224: the finally of run_full_calibration; the record goes to
\* save_calibration, an exception to main's handler (lines 299-300)
Finally ==
    /\ cpc = "finally"
    /\ disconnect
    /\ cpc' = IF error = "" THEN "save" ELSE "mainFinally"
    /\ UNCHANGED <<phase, heap, calibration_data, rest_data, flex_data, is_collecting,
                   sent, reads, rest_calibration, flex_calibration, result, saved,
                   error, restSamples, flexSamples, logvars>>

\* lines 226-235: the record is written, or the file cannot be opened
SaveCalibration ==
    /\ cpc = "save"
    /\ \/ saved' = result /\ UNCHANGED error
       \/ error' = "OSError" /\ UNCHANGED saved
    /\ cpc' = "mainFinally"
    /\ UNCHANGED <<phase, serial_connection, closes, heap, calibration_data, rest_data,
                   flex_data, is_collecting, sent, reads, rest_calibration,
                   flex_calibration, result, restSamples, flexSamples, logvars>>

\* lines 301-302: the finally of main
MainFinally ==
    /\ cpc = "mainFinally"
    /\ disconnect
    /\ cpc' = "end"
    /\ UNCHANGED <<phase, heap, calibration_data, rest_data, flex_data, is_collecting,
                   sent, reads, rest_calibration, flex_calibration, result, saved,
                   error, restSamples, flexSamples, logvars>>

CalNext ==
    \/ Connect
    \/ Prompt
    \/ StartDataCollection
    \/ ReadSample
    \/ ReadlineRaises
    \/ TimeUp
    \/ StopDataCollection
    \/ EmptyCheck
    \/ CalculateCalibrationValues
    \/ BuildRecord
    \/ Finally
    \/ SaveCalibration
    \/ MainFinally

CalSpec == Init /\ [][CalNext]_vars

-----------------------------------------------------------------------------
(* Vocabulary of the properties *)

\* the data rows of the store: everything after the header line
StoredRows == SubSeq(store, 2, Len(store))

\* the trial id of a tokenized row: its last field
TidOf(r) == r[Len(r)]

\* s is an initial part of t
IsPrefix(s, t) == Len(s) <= Len(t) /\ SubSeq(t, 1, Len(s)) = s

\* the number of rows at the start of the stream that carry the first row's id
FirstRunLen ==
    LET other == {i \in 1..Len(accepted) : TidOf(accepted[i]) # TidOf(accepted[1])}
    IN  IF other = {} THEN Len(accepted)
        ELSE (CHOOSE i \in other : \A j \in other : i <= j) - 1

\* every row accepted so far carries the same trial id
OneTrialId == FirstRunLen = Len(accepted)

\* the first row with another id was accepted and its id-change flush is over
ChangeFlushed ==
    /\ FirstRunLen < Len(accepted)
    /\ trial_id_active = << TidOf(accepted[FirstRunLen + 1]) >>

\* the reader thread has ended
ReaderStopped == rpc \in {"done", "failed", "killed"}

-----------------------------------------------------------------------------
(* C1: while all rows carry one trial id, nothing is flushed before the     *)
(* 75th row; the 75th row starts the one flush, which writes exactly rows   *)
(* 1..75 in arrival order, is acknowledged once under that id with 75 rows, *)
(* and leaves the buffer empty (later rows start a new buffer).             *)
C1_QuotaFlush ==
    (OneTrialId /\ Len(accepted) < 2 * ROWS_PER_TRIAL) =>
        IF Len(accepted) < ROWS_PER_TRIAL
        THEN /\ acks = <<>>
             /\ StoredRows = <<>>
             /\ current_rows = accepted
        ELSE IF Len(current_rows) = ROWS_PER_TRIAL
        THEN \* the flush is being written
             /\ acks = <<>>
             /\ current_rows = SubSeq(accepted, 1, ROWS_PER_TRIAL)
             /\ StoredRows = SubSeq(accepted, 1, fi)
             /\ Len(accepted) = ROWS_PER_TRIAL
        ELSE /\ acks = << [tid |-> TidOf(accepted[1]), n |-> ROWS_PER_TRIAL] >>
             /\ StoredRows = SubSeq(accepted, 1, ROWS_PER_TRIAL)
             /\ current_rows = SubSeq(accepted, ROWS_PER_TRIAL + 1, Len(accepted))

C1_Witness ==
    /\ OneTrialId
    /\ Len(accepted) = ROWS_PER_TRIAL
    /\ rpc = "top"
    /\ acks = << [tid |-> DeviceIds[1], n |-> ROWS_PER_TRIAL] >>
    /\ current_rows = <<>>

(* C2: whenever a data row arrives whose id differs from the active id     *)
(* while the buffer holds n < 75 rows, nothing is written or acknowledged   *)
(* on arrival; the n buffered rows are then written one by one; the flush   *)
(* that ends this is the only acknowledgment, it carries the old id and n,  *)
(* the store then holds every row accepted before the triggering row, the   *)
(* last n of them being the buffered ones, the active id is the new id and  *)
(* the buffer holds the triggering row alone.                               *)
C2_Arrival ==
    (rpc = "top" /\ rpc' = "flushChange") =>
        /\ acks' = acks /\ store' = store /\ current_rows' = current_rows
        /\ trial_id_active' = trial_id_active
        /\ TidOf(accepted'[Len(accepted')]) # trial_id_active[1]
        /\ \A i \in 1..Len(current_rows) : TidOf(current_rows[i]) = trial_id_active[1]

C2_Flush ==
    (rpc = "flushChange" /\ Len(current_rows) < ROWS_PER_TRIAL) =>
        LET n == Len(current_rows)
            m == Len(accepted)
        IN  \/ /\ rpc' = "flushChange"
               /\ acks' = acks /\ current_rows' = current_rows
               /\ trial_id_active' = trial_id_active
               /\ store' = store \/ store' = Append(store, current_rows[fi + 1])
            \/ /\ rpc' \in {"failed", "killed"}
               /\ acks' = acks /\ store' = store
            \/ /\ rpc' = "top"
               /\ acks' = Append(acks, [tid |-> trial_id_active[1], n |-> n])
               /\ StoredRows' = SubSeq(accepted, 1, m - 1)
               /\ SubSeq(accepted, m - n, m - 1) = current_rows
               /\ trial_id_active' = << TidOf(accepted[m]) >>
               /\ trial_id_active' # trial_id_active
               /\ current_rows' = << accepted[m] >>

C2_IdChangeFlush == [][C2_Arrival /\ C2_Flush]_vars

C2_Witness ==
    /\ Len(accepted) = 41
    /\ rpc = "top"
    /\ acks = << [tid |-> DeviceIds[1], n |-> 40] >>
    /\ Len(StoredRows) = 40
    /\ trial_id_active = << DeviceIds[2] >>
    /\ current_rows = << accepted[41] >>

(* C3: no dropped, duplicated or reordered rows: the rows of the store,     *)
(* followed by the rows of the buffer that the running flush has not yet    *)
(* written, followed by the row waiting for an id-change flush, are exactly *)
(* the rows accepted so far, in arrival order; and a step never changes or  *)
(* removes a row the store already holds.                                   *)
C3_Accounted ==
    /\ rpc = "top" => StoredRows \o current_rows = accepted
    /\ rpc = "flushQuota" =>
          StoredRows \o SubSeq(current_rows, fi + 1, Len(current_rows)) = accepted
    /\ rpc = "flushChange" =>
          StoredRows \o SubSeq(current_rows, fi + 1, Len(current_rows)) \o << parts >>
              = accepted
    /\ IsPrefix(StoredRows, accepted)
    /\ \A i \in 1..Len(accepted) : accepted[i][1] = Digits(i)

C3_NoDropDupReorder ==
    C3_Accounted /\ [][C3_Accounted' /\ IsPrefix(store, store')]_vars

C3_Witness ==
    /\ rpc = "top"
    /\ Len(acks) = 2
    /\ Len(StoredRows) = ROWS_PER_TRIAL + 1
    /\ Len(current_rows) = 1

(* C4: a trial whose n rows (1 <= n <= 75) arrive as one run and are        *)
(* followed by a row with another id is acknowledged exactly once: when the *)
(* id-change flush that follows the run is over, exactly one "Saved trial"  *)
(* message carries that id.                                                 *)
C4_FlushedExactlyOnce ==
    (ChangeFlushed /\ FirstRunLen >= 1 /\ FirstRunLen <= ROWS_PER_TRIAL) =>
        Cardinality({i \in 1..Len(acks) : acks[i].tid = TidOf(accepted[1])}) = 1

(* C5: no missing rows: once the reader has ended, whatever ended it, every *)
(* row it accepted is in the CSV file.                                      *)
C5_NoMissingRows == ReaderStopped => StoredRows = accepted

(* C6: no forced flush at the end: the step that ends the reader and the    *)
(* steps after it write nothing, acknowledge nothing and leave the buffer   *)
(* alone; so when the reader has ended between two flushes with k buffered  *)
(* rows, 0 < k < 75, none of those rows is in the store, then or later.     *)
C6_BufferedRowsUnwritten ==
    (ReaderStopped /\ fi = 0 /\ Len(current_rows) > 0
                   /\ Len(current_rows) < ROWS_PER_TRIAL) =>
        \A i \in 1..Len(current_rows) : \A j \in 1..Len(store) :
            store[j] # current_rows[i]

C7_HeaderOnce ==
    /\ Len(store) >= 1
    /\ store[1] = Split(HEADER, Comma)
    /\ \A i \in 2..Len(store) :
          /\ store[i] # store[1]
          /\ store[i][1] # << 116, 95, 115 >>

C7_Witness ==
    /\ line = HEADER \o << 13, 10 >>
    /\ Len(acks) = 2
    /\ Len(store) > ROWS_PER_TRIAL

(* C8: a line that is empty, starts with '#', starts with "t_s," or does    *)
(* not hold exactly 12 commas never reaches the segmenter: the turn of the  *)
(* loop that read it leaves the active id, the buffer, the store and the    *)
(* acknowledgments as they were and starts no flush.                        *)
RejectedText(l) ==
    \/ l = <<>>
    \/ l[1] = Hash
    \/ (Len(l) >= 4 /\ l[1] = 116 /\ l[2] = 95 /\ l[3] = 115 /\ l[4] = Comma)
    \/ Len(SelectSeq(l, LAMBDA b : b = Comma)) # 12

C8_RejectedLinesIgnored ==
    [][ (rpc = "top" /\ RejectedText(Text(line'))) =>
            /\ UNCHANGED <<trial_id_active, current_rows, store, acks, accepted>>
            /\ rpc' \notin {"flushChange", "flushQuota"} ]_vars

C8_Witness ==
    /\ line = HEADER \o << 13, 10 >>
    /\ rpc = "top"
    /\ Len(current_rows) = 10
    /\ Len(accepted) = 10
    /\ acks = <<>>

(* C9: the command channel is an independent failure domain: after a        *)
(* failed write of a command the reader is not stopped and the store is     *)
(* still open for its flushes.                                              *)
C9_ReaderSurvivesCommandFailure ==
    mpc = "crashed" => (fopen /\ rpc # "killed")

(* C10: when the reader has ended on an error, the main thread is told and  *)
(* winds down: it does not stay in its command loop for ever.               *)
C10_WriterWindsDown == (rpc = "failed") ~> (mpc \in {"stopping", "exited", "crashed"})

(* C11: on the operator's interrupt the reader finishes the line it has     *)
(* read before the store is closed: when main has left the with block, the  *)
(* reader is not in the middle of a flush.                                  *)
C11_FlushEndsBeforeClose ==
    mpc = "exited" => rpc \notin {"flushChange", "flushQuota"}

(* C12, as stated: the two threads share nothing but the connection: a step *)
(* of the main thread changes nothing that the reader reads or writes.      *)
MainStep == mpc' # mpc \/ written' # written

C12_OnlyConnectionShared ==
    [][ MainStep => UNCHANGED <<running, fopen, rpc, line, segvars>> ]_vars

(* C12, amended: no step of the main thread (a command written or failing,  *)
(* the interrupt, the end of main) changes the segmentation state or the    *)
(* reader's position, and the store grows only by the reader writing the    *)
(* next row of its flush; what main does change for the reader is the       *)
(* running flag and the state of the file.                                  *)
C12_MainLeavesSegmentation ==
    [][ /\ MainStep => UNCHANGED <<rpc, line, segvars>>
        /\ store' # store =>
              /\ ~MainStep
              /\ rpc \in {"flushChange", "flushQuota"}
              /\ fopen
              /\ store' = Append(store, current_rows[fi + 1]) ]_vars

C12_Witness ==
    /\ written # <<>>
    /\ rpc = "flushChange"
    /\ fi = 10
    /\ mpc = "prompt"

(* C14: the first data row of the stream sets the active id to its id and   *)
(* is buffered without any flush; the active id, once set, is never unset.  *)
C14_SetIffRowSeen == (trial_id_active = <<>>) <=> (accepted = <<>>)

C14_FirstRowAdoptsId ==
    /\ C14_SetIffRowSeen
    /\ [][ /\ C14_SetIffRowSeen'
           /\ (trial_id_active = <<>> /\ accepted' # accepted) =>
                 /\ trial_id_active' = << TidOf(accepted'[1]) >>
                 /\ current_rows' = << accepted'[1] >>
                 /\ rpc' = "top"
                 /\ UNCHANGED <<store, acks>>
           /\ trial_id_active # <<>> => trial_id_active' # <<>> ]_vars

C14_Witness ==
    /\ Len(accepted) = 1
    /\ trial_id_active = << DeviceIds[1] >>
    /\ current_rows = accepted
    /\ acks = <<>>
    /\ Len(store) = 1

(* C15: a quota flush leaves the active id as it is: rows of the same id    *)
(* that follow build a second group under that id, with no id-change flush; *)
(* 150 rows of one id give exactly two flushes of 75 rows, both under it.   *)
C15_Groups ==
    LET done == IF Len(current_rows) = ROWS_PER_TRIAL
                THEN (Len(accepted) \div ROWS_PER_TRIAL) - 1
                ELSE Len(accepted) \div ROWS_PER_TRIAL
    IN  /\ rpc # "flushChange"
        /\ accepted # <<>> => trial_id_active = << TidOf(accepted[1]) >>
        /\ acks = [i \in 1..done |-> [tid |-> DeviceIds[1], n |-> ROWS_PER_TRIAL]]
        /\ StoredRows = SubSeq(accepted, 1, done * ROWS_PER_TRIAL + fi)
        /\ current_rows = SubSeq(accepted, done * ROWS_PER_TRIAL + 1, Len(accepted))

C15_SameIdSecondGroup ==
    /\ C15_Groups
    /\ [][ /\ C15_Groups'
           /\ rpc = "flushQuota" => trial_id_active' = trial_id_active ]_vars

C15_Witness ==
    /\ Len(accepted) = 2 * ROWS_PER_TRIAL
    /\ rpc = "top"
    /\ acks = << [tid |-> DeviceIds[1], n |-> ROWS_PER_TRIAL],
                 [tid |-> DeviceIds[1], n |-> ROWS_PER_TRIAL] >>
    /\ Len(StoredRows) = 2 * ROWS_PER_TRIAL
    /\ current_rows = <<>>

(* C16: an error in the reader is fatal and not retried: once the reader    *)
(* has reported it, the reader reads no further line, changes nothing of    *)
(* its state, writes and acknowledges nothing; the buffered rows that were  *)
(* not written at that moment are the accepted rows after those stored,     *)
(* and stay outside the store.                                              *)
C16_UnwrittenStayOut ==
    rpc = "failed" =>
        /\ IsPrefix(StoredRows, accepted)
        /\ Len(StoredRows) + Len(current_rows) - fi <= Len(accepted)
        /\ SubSeq(accepted, Len(StoredRows) + 1, Len(StoredRows) + Len(current_rows) - fi)
              = SubSeq(current_rows, fi + 1, Len(current_rows))

HasInvalidByte(raw) == \E i \in 1..Len(raw) : raw[i] >= 128

C17_InvalidLineDropped ==
    [][ (rpc = "top" /\ HasInvalidByte(line')) =>
            /\ UNCHANGED <<accepted, current_rows, trial_id_active, store, acks>>
            /\ rpc' \notin {"flushChange", "flushQuota"} ]_vars

(* C20: between two lines the buffer holds at most 74 rows, and it never    *)
(* holds more than 75.                                                      *)
C20_BufferBound ==
    /\ Len(current_rows) <= ROWS_PER_TRIAL
    /\ rpc = "top" => Len(current_rows) <= ROWS_PER_TRIAL - 1

C20_Witness ==
    /\ rpc = "top"
    /\ Len(current_rows) = ROWS_PER_TRIAL - 1
    /\ Len(accepted) = ROWS_PER_TRIAL - 1

(* C13: a calibration phase that collected no sample ends the run with the  *)
(* error "No sensor data collected!"; a run that has failed never builds a  *)
(* record and saves nothing, whichever phase was the empty one.             *)
PhaseSamples == IF phase = "rest" THEN restSamples ELSE flexSamples

C13_FailedRunHasNoRecord ==
    (error # "" /\ error # "OSError") => (result = <<>> /\ saved = <<>>)

C13_EmptyPhaseFails ==
    /\ C13_FailedRunHasNoRecord
    /\ [][ /\ C13_FailedRunHasNoRecord'
           /\ (cpc = "check" /\ PhaseSamples = <<>>) =>
                 (error' = "No sensor data collected!" /\ cpc' = "finally")
           /\ error = "No sensor data collected!" =>
                 (error' = error /\ cpc' \in {"mainFinally", "end"}) ]_vars

C13_Witness ==
    /\ cpc = "end"
    /\ phase = "flex"
    /\ restSamples # <<>>
    /\ rest_calibration # <<>>
    /\ flexSamples = <<>>
    /\ error = "No sensor data collected!"
    /\ saved = <<>>

(* C18: every sample appended by collect_calibration_data is a vector of    *)
(* exactly 5 numbers.                                                       *)
C18_SamplesHaveFiveValues ==
    \A r \in 1..Len(heap) : \A i \in 1..Len(heap[r]) : Len(heap[r][i]) = 5

(* C19: the record's sensorBaselines are the means of the samples appended  *)
(* during the rest phase and its sensorMaximums the maxima of the samples   *)
(* appended during the flex phase; the list returned by the rest phase      *)
(* still holds the rest samples, and only them, when the flex collection    *)
(* has started, run and ended.                                              *)
C19_PhasesKeptApart ==
    /\ rest_data # 0 => heap[rest_data] = restSamples
    /\ flex_data # 0 => heap[flex_data] = flexSamples
    /\ phase = "rest" => flexSamples = <<>>
    /\ result # <<>> =>
          /\ result[1].calibrationData.sensorBaselines = Mean(restSamples)
          /\ result[1].calibrationData.sensorMaximums = Max(flexSamples)
    /\ saved # <<>> => saved = result

C19_Witness ==
    /\ cpc = "end"
    /\ saved # <<>>
    /\ restSamples = << <<1, 2, 3, 4, 5>>, <<3, 1, 4, 1, 5>> >>
    /\ flexSamples = << <<3, 1, 4, 1, 5>> >>
    /\ saved[1].calibrationData.sensorBaselines
          = << <<2, 1>>, <<3, 2>>, <<7, 2>>, <<5, 2>>, <<5, 1>> >>
    /\ saved[1].calibrationData.sensorMaximums = <<3, 1, 4, 1, 5>>

(* C21: every row in the buffer carries the active trial id, and the rows   *)
(* written by one flush all carry the id the flush is tagged with: during   *)
(* the flush the rows written so far, at its end the whole group counted    *)
(* in the acknowledgment.                                                   *)
C21_BufferOneId ==
    \A i \in 1..Len(current_rows) : << TidOf(current_rows[i]) >> = trial_id_active

C21_FlushSoFarOneId ==
    /\ fi <= Len(store) - 1
    /\ \A i \in (Len(store) - fi + 1)..Len(store) : << TidOf(store[i]) >> = trial_id_active

C21_GroupOneId ==
    acks' # acks =>
        LET a == acks'[Len(acks')]
        IN  /\ acks' = Append(acks, a)
            /\ a.n <= Len(store') - 1
            /\ \A i \in (Len(store') - a.n + 1)..Len(store') : TidOf(store'[i]) = a.tid

C21_Homogeneous ==
    /\ C21_BufferOneId
    /\ C21_FlushSoFarOneId
    /\ [][ C21_BufferOneId' /\ C21_FlushSoFarOneId' /\ C21_GroupOneId ]_vars

C21_Witness ==
    /\ rpc = "top"
    /\ Len(acks) = 1
    /\ acks[1] = [tid |-> DeviceIds[1], n |-> 5]
    /\ trial_id_active = << DeviceIds[2] >>
    /\ Len(current_rows) = 2
    /\ Len(store) = 6

(* C22, as stated: outside the collection (before start_data_collection,   *)
(* or after stop_data_collection) is_collecting is False and every 'start'  *)
(* that was written is followed at once by a 'stop' that was written.       *)
Collecting == cpc \in {"loop", "stop"}

C22_StartFollowedByStop ==
    ~Collecting =>
        /\ ~is_collecting
        /\ \A i \in 1..Len(sent) :
              (sent[i].cmd = "start" /\ sent[i].ok) =>
                  /\ i < Len(sent)
                  /\ sent[i + 1].cmd = "stop"
                  /\ sent[i + 1].ok

(* C22, amended: on every path out of the loop stop_data_collection is      *)
(* called: is_collecting is True exactly inside the collection, and the     *)
(* calls of send_command alternate 'start', 'stop', ending with 'stop'      *)
(* outside the collection and with 'start' inside it, whether or not the    *)
(* writes succeeded.                                                        *)
C22_StopCalledOnEveryPath ==
    /\ is_collecting <=> Collecting
    /\ \A i \in 1..Len(sent) : sent[i].cmd = IF i % 2 = 1 THEN "start" ELSE "stop"
    /\ Len(sent) % 2 = IF Collecting THEN 1 ELSE 0

C22_Witness ==
    /\ cpc = "end"
    /\ error = "No sensor data collected!"
    /\ phase = "rest"
    /\ sent = << [cmd |-> "start", ok |-> TRUE], [cmd |-> "stop", ok |-> FALSE] >>
    /\ ~is_collecting

(* C23: when run_full_calibration has been left after a successful connect, *)
(* by its return or by any exception, the connection is closed; it is       *)
(* closed once: the disconnect of main's finally changes nothing, raises    *)
(* nothing and ends the program.                                            *)
C23_ClosedAfterRun ==
    /\ closes <= 1
    /\ closes = 1 <=> serial_connection = "closed"
    /\ (cpc \in {"save", "mainFinally", "end"} /\ serial_connection # "none") =>
           (serial_connection = "closed" /\ closes = 1)

C23_ClosedOnce ==
    /\ C23_ClosedAfterRun
    /\ [][ /\ C23_ClosedAfterRun'
           /\ cpc = "mainFinally" =>
                 (cpc' = "end" /\ UNCHANGED <<serial_connection, closes, error>>) ]_vars

C23_Witness ==
    /\ cpc = "end"
    /\ error \in {"ValueError", "TypeError"}
    /\ phase = "flex"
    /\ serial_connection = "closed"
    /\ closes = 1

====
